---- MODULE Spec2Model ----
(***************************************************************************)
(* A model of dtmf-stream.py: the streaming DTMF decoder.                  *)
(*                                                                         *)
(* detect_tone() opens an input stream whose callback, listen(), is run    *)
(* once per audio frame.  listen() matches the frame to a DTMF symbol,     *)
(* debounces it, accumulates wall-clock time and drives the press / hang   *)
(* logic; detect_tone() polls `complete` and returns `pressed`.            *)
(*                                                                         *)
(* Time is an integer number of ticks.  The FFT is abstracted: a frame is  *)
(* given by its length and by the magnitude found in the bin nearest to    *)
(* each of the eight DTMF frequencies.                                     *)
(***************************************************************************)
EXTENDS Integers, Sequences, FiniteSets, TLC

\* ------------------------------------------------------------------ bounds
MaxClock == 8
MaxDelta == 2
MaxToneTime == 2
MaxHangTime == 2
MaxDebounce == 2

\* --------------------------------------------------------------- constants
None == "none"

TONES_LOW == {697, 770, 852, 941}

TONES_HIGH == {1209, 1336, 1477, 1633}

TonesDuplicate ==
  (<<697, 1209>> :> "1") @@ (<<697, 1336>> :> "2") @@
  (<<697, 1477>> :> "3") @@ (<<697, 1633>> :> "A") @@
  (<<770, 1209>> :> "4") @@ (<<770, 1336>> :> "5") @@
  (<<770, 1477>> :> "6") @@ (<<770, 1633>> :> "B") @@
  (<<852, 1209>> :> "7") @@ (<<852, 1336>> :> "8") @@
  (<<852, 1477>> :> "9") @@ (<<852, 1633>> :> "B") @@
  (<<941, 1209>> :> "*") @@ (<<941, 1336>> :> "0") @@
  (<<941, 1477>> :> "#") @@ (<<941, 1633>> :> "D")

TONES ==
  (<<697, 1209>> :> "1") @@ (<<697, 1336>> :> "2") @@
  (<<697, 1477>> :> "3") @@ (<<697, 1633>> :> "A") @@
  (<<770, 1209>> :> "4") @@ (<<770, 1336>> :> "5") @@
  (<<770, 1477>> :> "6") @@ (<<770, 1633>> :> "B") @@
  (<<852, 1209>> :> "7") @@ (<<852, 1336>> :> "8") @@
  (<<852, 1477>> :> "9") @@ (<<852, 1633>> :> "C") @@
  (<<941, 1209>> :> "*") @@ (<<941, 1336>> :> "0") @@
  (<<941, 1477>> :> "#") @@ (<<941, 1633>> :> "D")

\* strength = 0.01, as the fraction StrengthNum / StrengthDen
StrengthNum == 1

StrengthDen == 100

\* ------------------------------------------------------------------ frames
\* A frame: its length and the magnitude of the bin nearest to each tone.
SilentFrame(n) ==
  [frames |-> n, low |-> [t \in TONES_LOW |-> 0], high |-> [t \in TONES_HIGH |-> 0]]

ToneFrame(n, l, h, m) ==
  [frames |-> n,
   low  |-> [t \in TONES_LOW  |-> IF t = l THEN m ELSE 0],
   high |-> [t \in TONES_HIGH |-> IF t = h THEN m ELSE 0]]

\* The pair of frequencies of a symbol
PairOf(s) == CHOOSE p \in DOMAIN TONES : TONES[p] = s

SymbolFrame(n, s, m) == ToneFrame(n, PairOf(s)[1], PairOf(s)[2], m)

\* ------------------------------------------------------- listen(): matching
\* line 65-66: keep the tones whose magnitude / frames > strength
AboveStrengthWeak(mags, frames) ==
  {t \in DOMAIN mags : mags[t] * StrengthDen >= StrengthNum * frames}

AboveStrength(mags, frames) ==
  {t \in DOMAIN mags : mags[t] * StrengthDen > StrengthNum * frames}

\* line 69-70: max(..., key=..., default=None); among equal magnitudes the
\* winner is the first in the iteration order of a set, which the language
\* does not fix: every maximal tone is a possible result.  The empty set
\* stands for the default, None.
MaxTonesUnfiltered(mags, kept) ==
  {t \in DOMAIN mags : \A u \in DOMAIN mags : mags[t] >= mags[u]}

MaxTones(mags, kept) ==
  {t \in kept : \A u \in kept : mags[t] >= mags[u]}

\* line 71: TONES.get((max_low, max_high)), for each possible pair of winners
TonesGet(lows, highs) ==
  IF lows = {} \/ highs = {} THEN {None}
  ELSE {IF <<l, h>> \in DOMAIN TONES THEN TONES[<<l, h>>] ELSE None :
          l \in lows, h \in highs}

\* lines 56-71: the raw symbols listen() may find in a frame of length > 0
FoundTones(f) ==
  TonesGet(MaxTones(f.low, AboveStrength(f.low, f.frames)),
           MaxTones(f.high, AboveStrength(f.high, f.frames)))

\* line 56: numpy.fft.rfft raises ValueError on an empty frame
ListenRaises(f) == f.frames = 0

\* ----------------------------------------------------- listen(): debouncing
\* lines 74-85, on the values of saved_tone, seen_tone, seen_count, time_on
DebounceEager(found, saved, seen, count, t, deb) ==
  IF found = seen
  THEN IF count < deb
       THEN [saved |-> saved, seen |-> seen, count |-> count + 1, time_on |-> t]
       ELSE IF found # saved
            THEN [saved |-> found, seen |-> seen, count |-> count, time_on |-> 0]
            ELSE [saved |-> saved, seen |-> seen, count |-> count, time_on |-> t]
  ELSE IF found # saved
       THEN [saved |-> found, seen |-> found, count |-> 1, time_on |-> 0]
       ELSE [saved |-> saved, seen |-> found, count |-> 1, time_on |-> t]

DebounceForgetsSeen(found, saved, seen, count, t, deb) ==
  IF found = seen
  THEN IF count < deb
       THEN [saved |-> saved, seen |-> seen, count |-> count + 1, time_on |-> t]
       ELSE IF found # saved
            THEN [saved |-> found, seen |-> seen, count |-> count, time_on |-> 0]
            ELSE [saved |-> saved, seen |-> seen, count |-> count, time_on |-> t]
  ELSE [saved |-> saved, seen |-> seen, count |-> 1, time_on |-> t]

DebounceKeepsTime(found, saved, seen, count, t, deb) ==
  IF found = seen
  THEN IF count < deb
       THEN [saved |-> saved, seen |-> seen, count |-> count + 1, time_on |-> t]
       ELSE IF found # saved
            THEN [saved |-> found, seen |-> seen, count |-> count, time_on |-> t]
            ELSE [saved |-> saved, seen |-> seen, count |-> count, time_on |-> t]
  ELSE [saved |-> saved, seen |-> found, count |-> 1, time_on |-> t]

DebounceUpdate(found, saved, seen, count, t, deb) ==
  IF found = seen
  THEN IF count < deb
       THEN [saved |-> saved, seen |-> seen, count |-> count + 1, time_on |-> t]
       ELSE IF found # saved
            THEN [saved |-> found, seen |-> seen, count |-> count, time_on |-> 0]
            ELSE [saved |-> saved, seen |-> seen, count |-> count, time_on |-> t]
  ELSE [saved |-> saved, seen |-> found, count |-> 1, time_on |-> t]

\* ---------------------------------------------------- listen(): press state
\* lines 90-101, on the values after debouncing and time accumulation;
\* stop is TRUE when sounddevice.CallbackStop is raised.
PressUpdateInclusive(p, saved, seen, t, tt, ht) ==
  IF p = None
  THEN IF saved # None /\ t >= tt
       THEN [pressed |-> saved, complete |-> FALSE, stop |-> FALSE]
       ELSE [pressed |-> p, complete |-> FALSE, stop |-> FALSE]
  ELSE IF saved = seen /\ saved # None
       THEN [pressed |-> None, complete |-> FALSE, stop |-> FALSE]
       ELSE IF t > ht
            THEN [pressed |-> p, complete |-> TRUE, stop |-> TRUE]
            ELSE [pressed |-> p, complete |-> FALSE, stop |-> FALSE]

PressUpdateUnnested(p, saved, seen, t, tt, ht) ==
  IF p = None /\ saved # None /\ t > tt
  THEN [pressed |-> saved, complete |-> FALSE, stop |-> FALSE]
  ELSE IF p # None /\ saved = seen /\ saved # None
       THEN [pressed |-> None, complete |-> FALSE, stop |-> FALSE]
       ELSE IF t > ht
            THEN [pressed |-> p, complete |-> TRUE, stop |-> TRUE]
            ELSE [pressed |-> p, complete |-> FALSE, stop |-> FALSE]

PressUpdateNoStop(p, saved, seen, t, tt, ht) ==
  IF p = None
  THEN IF saved # None /\ t > tt
       THEN [pressed |-> saved, complete |-> FALSE, stop |-> FALSE]
       ELSE [pressed |-> p, complete |-> FALSE, stop |-> FALSE]
  ELSE IF saved = seen /\ saved # None
       THEN [pressed |-> None, complete |-> FALSE, stop |-> FALSE]
       ELSE IF t > ht
            THEN [pressed |-> p, complete |-> TRUE, stop |-> FALSE]
            ELSE [pressed |-> p, complete |-> FALSE, stop |-> FALSE]

PressUpdateKeepsPress(p, saved, seen, t, tt, ht) ==
  IF p = None
  THEN IF saved # None /\ t > tt
       THEN [pressed |-> saved, complete |-> FALSE, stop |-> FALSE]
       ELSE [pressed |-> p, complete |-> FALSE, stop |-> FALSE]
  ELSE IF saved = seen /\ saved # None
       THEN [pressed |-> p, complete |-> FALSE, stop |-> FALSE]
       ELSE IF t > ht
            THEN [pressed |-> p, complete |-> TRUE, stop |-> TRUE]
            ELSE [pressed |-> p, complete |-> FALSE, stop |-> FALSE]

PressUpdateHangFirst(p, saved, seen, t, tt, ht) ==
  IF p = None
  THEN IF saved # None /\ t > tt
       THEN [pressed |-> saved, complete |-> FALSE, stop |-> FALSE]
       ELSE [pressed |-> p, complete |-> FALSE, stop |-> FALSE]
  ELSE IF t > ht
       THEN [pressed |-> p, complete |-> TRUE, stop |-> TRUE]
       ELSE IF saved = seen /\ saved # None
            THEN [pressed |-> None, complete |-> FALSE, stop |-> FALSE]
            ELSE [pressed |-> p, complete |-> FALSE, stop |-> FALSE]

PressUpdateTakesSeen(p, saved, seen, t, tt, ht) ==
  IF p = None
  THEN IF saved # None /\ t > tt
       THEN [pressed |-> seen, complete |-> FALSE, stop |-> FALSE]
       ELSE [pressed |-> p, complete |-> FALSE, stop |-> FALSE]
  ELSE IF saved = seen /\ saved # None
       THEN [pressed |-> None, complete |-> FALSE, stop |-> FALSE]
       ELSE IF t > ht
            THEN [pressed |-> p, complete |-> TRUE, stop |-> TRUE]
            ELSE [pressed |-> p, complete |-> FALSE, stop |-> FALSE]

PressUpdateClearsOnSilence(p, saved, seen, t, tt, ht) ==
  IF p = None
  THEN IF saved # None /\ t > tt
       THEN [pressed |-> saved, complete |-> FALSE, stop |-> FALSE]
       ELSE [pressed |-> p, complete |-> FALSE, stop |-> FALSE]
  ELSE IF saved = seen
       THEN [pressed |-> None, complete |-> FALSE, stop |-> FALSE]
       ELSE IF t > ht
            THEN [pressed |-> p, complete |-> TRUE, stop |-> TRUE]
            ELSE [pressed |-> p, complete |-> FALSE, stop |-> FALSE]

PressUpdate(p, saved, seen, t, tt, ht) ==
  IF p = None
  THEN IF saved # None /\ t > tt
       THEN [pressed |-> saved, complete |-> FALSE, stop |-> FALSE]
       ELSE [pressed |-> p, complete |-> FALSE, stop |-> FALSE]
  ELSE IF saved = seen /\ saved # None
       THEN [pressed |-> None, complete |-> FALSE, stop |-> FALSE]
       ELSE IF t > ht
            THEN [pressed |-> p, complete |-> TRUE, stop |-> TRUE]
            ELSE [pressed |-> p, complete |-> FALSE, stop |-> FALSE]

\* -------------------------------------------------------------------- state
VARIABLES
  tone_time, hang_time, debounce,      \* arguments of detect_tone
  last_time, saved_tone, seen_tone, seen_count, time_on, pressed, complete,
  stream,                              \* "closed", "active", "stopped", "aborted"
  pc,                                  \* detect_tone: "start", "poll", "exit", "done"
  result,                              \* the value detect_tone returned
  \* history of the run, read by the properties only
  frames_seen,                         \* has listen() processed a frame
  any_tone,                            \* has a frame had a tone above strength
  raw_hist,                            \* raw symbols of the last three frames
  saved_hist,                          \* saved_tone before each of them
  run_len,                             \* length of the current run of equal raw symbols
  since_pressed,                       \* time accumulated since pressed was recorded
  pressed_at_complete,                 \* pressed when complete became true
  scen, key,                           \* the run as "frames of key, then silence"
  tone_dur,                            \* time from the first to the last frame of key
  sil_dur,                             \* time from the last frame of key to the last silent frame
  since_change,                        \* frames since saved_tone last changed, -1 if it never did
  last_confirmed,                      \* the last symbol saved_tone held
  frame,                               \* <<f>>, f the last frame delivered; <<>> before the first
  plan                                 \* scripted runs: tone frames to feed

config == <<tone_time, hang_time, debounce>>

code == <<last_time, saved_tone, seen_tone, seen_count, time_on, pressed, complete>>

caller == <<pc, result>>

history == <<frames_seen, any_tone, raw_hist, saved_hist, run_len, since_pressed,
             pressed_at_complete, scen, key, tone_dur, sil_dur, since_change,
             last_confirmed>>

vars == <<config, code, stream, caller, history, frame, plan>>

\* lines 44-50: the closure variables of detect_tone, and an unopened stream
InitState ==
  /\ last_time = 0
  /\ saved_tone = None
  /\ seen_tone = None
  /\ seen_count = 0
  /\ time_on = 0
  /\ pressed = None
  /\ complete = FALSE
  /\ stream = "closed"
  /\ pc = "start"
  /\ result = None
  /\ frames_seen = FALSE
  /\ any_tone = FALSE
  /\ raw_hist = <<>>
  /\ saved_hist = <<>>
  /\ run_len = 0
  /\ since_pressed = 0
  /\ pressed_at_complete = None
  /\ scen = "idle"
  /\ key = None
  /\ tone_dur = 0
  /\ sil_dur = 0
  /\ since_change = -1
  /\ last_confirmed = None
  /\ frame = <<>>

\* line 32, 40-41: any numbers are accepted as tone_time and hang_time
Init ==
  /\ tone_time \in 0..MaxToneTime
  /\ hang_time \in 0..MaxHangTime
  /\ debounce \in 1..MaxDebounce
  /\ plan = 0
  /\ InitState

ValidConfig == tone_time > 0 /\ hang_time > 0 /\ debounce >= 1

\* ------------------------------------------------------------------ history
Last3(s) == IF Len(s) > 3 THEN SubSeq(s, Len(s) - 2, Len(s)) ELSE s

NextScen(found) ==
  CASE scen = "idle" -> IF found # None THEN "tone" ELSE "off"
    [] scen = "tone" -> IF found = key THEN "tone"
                        ELSE IF found = None THEN "silence" ELSE "off"
    [] scen = "silence" -> IF found = None THEN "silence" ELSE "off"
    [] OTHER -> "off"

\* no tone of the frame is above strength
Quiet(f) ==
  /\ \A t \in TONES_LOW : f.low[t] * StrengthDen <= StrengthNum * f.frames
  /\ \A t \in TONES_HIGH : f.high[t] * StrengthDen <= StrengthNum * f.frames

RecordFrame(f, found, dt, new_saved, new_pressed, new_complete) ==
  /\ frame' = <<f>>
  /\ since_change' = IF new_saved # saved_tone THEN 0
                     ELSE IF since_change >= 0 THEN since_change + 1 ELSE -1
  /\ last_confirmed' = IF new_saved # None THEN new_saved ELSE last_confirmed
  /\ frames_seen' = TRUE
  /\ any_tone' = (any_tone \/ ~Quiet(f))
  /\ raw_hist' = Last3(Append(raw_hist, found))
  /\ saved_hist' = Last3(Append(saved_hist, saved_tone))
  /\ run_len' = IF found = seen_tone THEN run_len + 1 ELSE 1
  /\ since_pressed' = IF new_pressed = None \/ pressed = None THEN 0
                      ELSE since_pressed + dt
  /\ pressed_at_complete' = IF new_complete /\ ~complete THEN new_pressed
                            ELSE pressed_at_complete
  /\ scen' = NextScen(found)
  /\ key' = IF scen = "idle" THEN found ELSE key
  /\ tone_dur' = IF scen = "tone" /\ NextScen(found) = "tone" THEN tone_dur + dt
                 ELSE tone_dur
  /\ sil_dur' = IF NextScen(found) = "silence" THEN sil_dur + dt ELSE sil_dur

\* ------------------------------------------------------------------ actions
\* lines 52-103: one call of listen() on frame f, dt after the previous one
Listen(f, found, dt) ==
  LET d == DebounceUpdate(found, saved_tone, seen_tone, seen_count, time_on, debounce)
      t == d.time_on + dt
      p == PressUpdate(pressed, d.saved, d.seen, t, tone_time, hang_time)
  IN /\ saved_tone' = d.saved
     /\ seen_tone' = d.seen
     /\ seen_count' = d.count
     /\ time_on' = t
     /\ last_time' = last_time + dt
     /\ pressed' = p.pressed
     /\ complete' = (complete \/ p.complete)
     /\ stream' = IF p.stop THEN "stopped" ELSE stream
     /\ RecordFrame(f, found, dt, d.saved, p.pressed, complete \/ p.complete)

\* The stream calls listen() while it is active.
Deliver(f, dt) ==
  /\ stream = "active"
  /\ IF ListenRaises(f)
     THEN /\ stream' = "aborted"
          /\ frame' = <<f>>
          /\ UNCHANGED <<code, history>>
     ELSE \E found \in FoundTones(f) : Listen(f, found, dt)
  /\ UNCHANGED <<config, caller, plan>>

\* line 106: entering the with block opens and starts the stream
OpenStream ==
  /\ pc = "start"
  /\ pc' = "poll"
  /\ stream' = "active"
  /\ UNCHANGED <<config, code, result, history, frame, plan>>

\* lines 107-108: the loop ends once complete is read as true
Poll ==
  /\ pc = "poll"
  /\ complete
  /\ pc' = "exit"
  /\ UNCHANGED <<config, code, stream, result, history, frame, plan>>

\* line 106: leaving the with block closes the stream
CloseStream ==
  /\ pc = "exit"
  /\ pc' = "return"
  /\ stream' = "closed"
  /\ UNCHANGED <<config, code, result, history, frame, plan>>

\* line 110: return pressed
Return ==
  /\ pc = "return"
  /\ pc' = "done"
  /\ result' = pressed
  /\ UNCHANGED <<config, code, stream, history, frame, plan>>

\* ------------------------------------------------------- the free-running run
Keys == {"1", "5"}

FrameLen == 5 * StrengthDen

\* silence, a tone pair just at the strength threshold, and clear tone pairs
Frames ==
  {SilentFrame(FrameLen), SymbolFrame(FrameLen, "D", (StrengthNum * FrameLen) \div StrengthDen)}
    \cup {SymbolFrame(FrameLen, s, FrameLen) : s \in Keys}

Frame ==
  \E f \in Frames, dt \in 1..MaxDelta :
    /\ last_time + dt <= MaxClock
    /\ Deliver(f, dt)

Next == OpenStream \/ Frame \/ Poll \/ CloseStream \/ Return

Spec == Init /\ [][Next]_vars

\* --------------------------------------------------------- the scripted run
\* 8000 Hz, frames of 512 samples (64 ms apart), toneTime 250 ms, hangTime
\* 50 ms, debounce 3: about 35 frames of "5", then 5 frames of silence.
E2ESpread == 2

E2E == [tone_time |-> 250, hang_time |-> 50, debounce |-> 3, delta |-> 64,
        frames |-> 512, key |-> "5", tone_frames |-> 35, silent_frames |-> 5]

InitE2E ==
  /\ tone_time = E2E.tone_time
  /\ hang_time = E2E.hang_time
  /\ debounce = E2E.debounce
  /\ plan \in (E2E.tone_frames - E2ESpread)..(E2E.tone_frames + E2ESpread)
  /\ InitState

E2ECanFeed ==
  /\ stream = "active"
  /\ sil_dur < E2E.silent_frames * E2E.delta

E2EFrame ==
  /\ E2ECanFeed
  /\ IF scen = "idle" \/ tone_dur < (plan - 1) * E2E.delta
     THEN Deliver(SymbolFrame(E2E.frames, E2E.key, E2E.frames \div 2), E2E.delta)
     ELSE Deliver(SilentFrame(E2E.frames), E2E.delta)

NextE2E == OpenStream \/ E2EFrame \/ Poll \/ CloseStream \/ Return

SpecE2E == InitE2E /\ [][NextE2E]_vars

\* ------------------------------------------------------ the matching run
\* A few frames drawn from: every pure tone pair, pairs of low and of high
\* tones with magnitudes around the strength threshold, silence, and a
\* frame of length zero.
MaxAbove == 1

MaxMatchFrames == 2

Threshold == (StrengthNum * FrameLen) \div StrengthDen

Levels == (Threshold - 1)..(Threshold + MaxAbove)

MixedFrame(a, b, c, d) ==
  [frames |-> FrameLen,
   low  |-> [t \in TONES_LOW  |-> IF t = 697 THEN a ELSE IF t = 770 THEN b ELSE 0],
   high |-> [t \in TONES_HIGH |-> IF t = 1209 THEN c ELSE IF t = 1336 THEN d ELSE 0]]

ZeroFrame == SilentFrame(0)

MatchFrames ==
  {ToneFrame(FrameLen, l, h, FrameLen) : l \in TONES_LOW, h \in TONES_HIGH}
    \cup {MixedFrame(a, b, c, d) : a \in Levels, b \in Levels, c \in Levels, d \in Levels}
    \cup {SilentFrame(FrameLen), ZeroFrame}

InitMatch ==
  /\ tone_time = MaxToneTime
  /\ hang_time = MaxHangTime
  /\ debounce = MaxDebounce
  /\ plan = 0
  /\ InitState

MatchFrame ==
  \E f \in MatchFrames :
    /\ last_time + 1 <= MaxMatchFrames
    /\ Deliver(f, 1)

NextMatch == OpenStream \/ MatchFrame

SpecMatch == InitMatch /\ [][NextMatch]_vars

\* ------------------------------------------------- the run that falls silent
\* Any frames until pressed holds a symbol, only silent frames after that.
\* The stream keeps delivering frames while it is active, and detect_tone
\* keeps polling: both are weakly fair.  The silent frames get the time
\* they can need: debounce + 1 frames to confirm the silence and
\* hang_time + 1 more, each at most MaxDelta long.
MaxPressClock == 6

HangSlack == MaxDelta * (MaxDebounce + MaxHangTime + 2)

\* silence and clear tone pairs
HangFrames == {SilentFrame(FrameLen)} \cup {SymbolFrame(FrameLen, s, FrameLen) : s \in Keys}

InitHang ==
  /\ tone_time \in 1..MaxToneTime
  /\ hang_time \in 1..MaxHangTime
  /\ debounce \in 1..MaxDebounce
  /\ plan = 0
  /\ InitState

AnyFrame ==
  /\ pressed = None
  /\ \E f \in HangFrames, dt \in 1..MaxDelta :
       /\ last_time + dt <= MaxPressClock
       /\ Deliver(f, dt)

OnlySilence ==
  /\ pressed # None
  /\ \E dt \in 1..MaxDelta :
       /\ last_time + dt <= MaxPressClock + HangSlack
       /\ Deliver(SilentFrame(FrameLen), dt)

NextHang == OpenStream \/ AnyFrame \/ OnlySilence \/ Poll \/ CloseStream \/ Return

SpecHang ==
  /\ InitHang /\ [][NextHang]_vars
  /\ WF_vars(OnlySilence)
  /\ WF_vars(Poll) /\ WF_vars(CloseStream) /\ WF_vars(Return)

\* ------------------------------------------------------------------- claims
\* the tones of a frame whose magnitude / frames is strictly above strength
LoudLow(f) == {t \in TONES_LOW : f.low[t] * StrengthDen > StrengthNum * f.frames}

LoudHigh(f) == {t \in TONES_HIGH : f.high[t] * StrengthDen > StrengthNum * f.frames}

\* listen() has processed the last frame delivered
Processed == frames_seen /\ frame # <<>> /\ frame[1].frames > 0

Pattern3(T) ==
  /\ Len(raw_hist) = 3
  /\ saved_hist[1] = T
  /\ raw_hist[1] = T
  /\ raw_hist[2] # T
  /\ raw_hist[3] = T

\* C1: frames of one symbol S spanning more than tone_time, followed by
\* silent frames spanning more than hang_time, end with
\* complete = TRUE and S as the pressed (returned) symbol.
C1_Original ==
  (ValidConfig /\ scen = "silence" /\ tone_dur > tone_time /\ sil_dur > hang_time)
    => (complete /\ pressed = key /\ (pc = "done" => result = key))

\* C2: under a valid configuration, as long as no frame has had a tone above
\* strength, pressed is none and complete is false, whatever time has passed.
C2_SilenceNeverPresses ==
  (ValidConfig /\ ~any_tone) => (pressed = None /\ ~complete)

C2_Witness ==
  /\ ValidConfig /\ ~any_tone /\ frames_seen
  /\ seen_count = debounce
  /\ time_on > tone_time + hang_time

\* C3: complete becomes true only when the time accumulated since pressed was
\* recorded exceeds hang_time.
C3_Original == (ValidConfig /\ complete) => since_pressed > hang_time

\* C4: a raw symbol that differs from the confirmed tone is confirmed in the
\* frame that completes a run of exactly debounce frames of it.
C4_Original ==
  (frames_seen /\ run_len = debounce /\ seen_tone # saved_hist[Len(saved_hist)])
    => saved_tone = seen_tone

\* C5: pressed goes from none to a symbol only in a frame after which
\* saved_tone is a symbol and time_on > tone_time, and it is that symbol;
\* with time_on equal to tone_time or below, pressed stays none.
C5_PressNeedsToneTime ==
  [][(pressed = None /\ pressed' # None)
       => (saved_tone' # None /\ time_on' > tone_time /\ pressed' = saved_tone')]_vars

C5_Witness ==
  /\ ValidConfig /\ pressed # None /\ since_pressed = 0
  /\ pressed = saved_tone
  /\ time_on = tone_time + 1

\* C6: in the scripted run (33..37 frames of "5" 64 ms apart, then 5 silent
\* frames) the press completes with "5" no later than the last silent
\* frame, and detect_tone returns "5".
C6_EndToEnd ==
  /\ (pc # "start" /\ ~E2ECanFeed)
       => (complete /\ pressed = E2E.key /\ scen = "silence")
  /\ pc = "done" => result = E2E.key

C6_Witness ==
  /\ plan = E2E.tone_frames
  /\ tone_dur = (plan - 1) * E2E.delta
  /\ pc = "done" /\ result = E2E.key

\* C7: whenever complete is true pressed is a symbol, and detect_tone
\* returns exactly the symbol pressed held when complete became true.
C7_ReturnsPressed ==
  /\ complete => (pressed # None /\ pressed = pressed_at_complete)
  /\ pc = "done" => (result # None /\ result = pressed_at_complete)

C7_Witness == ValidConfig /\ pc = "done" /\ result \in Keys /\ complete

\* C8: once complete is true it stays true, no further frame is processed
\* (last_time stands still) and saved_tone, seen_tone, seen_count, time_on
\* and pressed keep their values.
C8_CompleteIsTerminal ==
  [][complete => (complete' /\ UNCHANGED <<last_time, saved_tone, seen_tone,
                                          seen_count, time_on, pressed>>)]_vars

C8_Witness == ValidConfig /\ complete /\ pc = "done" /\ last_time < MaxClock

\* C9: with debounce >= 2, three frames with raw symbols T, X, T, where T is
\* the confirmed tone before them and X # T, leave saved_tone = T after
\* each of the three.
C9_IsolatedFrameIgnored ==
  \A T \in Keys \cup {None, "D"} :
    (debounce >= 2 /\ Pattern3(T))
      => (saved_hist[2] = T /\ saved_hist[3] = T /\ saved_tone = T)

C9_Witness ==
  \E T \in Keys : ValidConfig /\ debounce >= 2 /\ Pattern3(T) /\ raw_hist[2] \in Keys

\* C10: with tone_time <= 0 or hang_time <= 0 the call is rejected before
\* the stream is started: the stream stays closed, no frame is processed and
\* the detection state keeps its initial values.
C10_Original ==
  (tone_time <= 0 \/ hang_time <= 0)
    => (stream = "closed" /\ pc = "start" /\ ~frames_seen /\ last_time = 0)

\* C11: the raw symbol of a frame is a symbol only if some low and some high
\* tone have magnitude / frames strictly above strength, both tones of the
\* matched pair are strictly above strength, and the raw symbol is none when
\* either group has no such tone.
C11_StrengthThreshold ==
  Processed =>
    /\ seen_tone # None =>
         /\ PairOf(seen_tone)[1] \in LoudLow(frame[1])
         /\ PairOf(seen_tone)[2] \in LoudHigh(frame[1])
    /\ (LoudLow(frame[1]) = {} \/ LoudHigh(frame[1]) = {}) => seen_tone = None

C11_Witness ==
  /\ Processed
  /\ LoudLow(frame[1]) = {}
  /\ LoudHigh(frame[1]) # {}
  /\ \E t \in TONES_LOW : frame[1].low[t] * StrengthDen = StrengthNum * frame[1].frames
  /\ seen_tone = None

\* C12: TONES is defined on each of the 16 pairs of TONES_LOW x TONES_HIGH
\* and no two pairs have the same symbol; the raw symbol of a frame names
\* exactly one pair.
C12_TableTotalInjective ==
  /\ DOMAIN TONES = TONES_LOW \X TONES_HIGH
  /\ \A p \in DOMAIN TONES, q \in DOMAIN TONES : TONES[p] = TONES[q] => p = q
  /\ Cardinality({TONES[p] : p \in DOMAIN TONES}) = 16
  /\ (Processed /\ seen_tone # None)
       => Cardinality({p \in DOMAIN TONES : TONES[p] = seen_tone}) = 1

C12_Witness ==
  /\ Processed
  /\ LoudLow(frame[1]) = {941}
  /\ LoudHigh(frame[1]) = {1633}
  /\ seen_tone = "D"

\* C13: a frame of length zero is processed as a frame with raw symbol none:
\* the callback does not raise and the state is updated as for silence.
C13_Original ==
  (frame # <<>> /\ frame[1].frames = 0)
    => (stream # "aborted" /\ frames_seen /\ seen_tone = None /\ last_time > 0)

\* C14: in a frame where saved_tone changes, time_on is reset (and then holds
\* only that frame's delta); in every other frame, whatever happens to
\* pressed, time_on grows by the frame's delta.
C14_ResetExactlyOnChange ==
  [][last_time' # last_time =>
       IF saved_tone' # saved_tone
       THEN time_on' = last_time' - last_time
       ELSE time_on' = time_on + (last_time' - last_time)]_vars

C14_Witness ==
  /\ ValidConfig /\ frames_seen
  /\ since_change = 0 /\ saved_tone = None
  /\ pressed # None
  /\ time_on < last_time

\* C15, as stated: with pressed a symbol, a frame whose raw symbol equals
\* saved_tone clears pressed and does not complete.
C15_Original ==
  [][(ValidConfig /\ pressed # None /\ last_time' # last_time
        /\ seen_tone' = saved_tone')
       => (pressed' = None /\ ~complete')]_vars

\* C15, amended: with pressed a symbol, a frame whose raw symbol equals a
\* saved_tone that is a symbol clears pressed and does not complete, even
\* when time_on exceeds hang_time.
C15_TonePresentClearsPress ==
  [][(pressed # None /\ last_time' # last_time
        /\ seen_tone' = saved_tone' /\ saved_tone' # None)
       => (pressed' = None /\ ~complete')]_vars

C15_Witness ==
  /\ ValidConfig /\ frames_seen
  /\ pressed = None /\ ~complete
  /\ saved_tone # None /\ seen_tone = saved_tone
  /\ time_on > tone_time /\ time_on > hang_time

\* C16: two frames in which saved_tone changes are at least debounce frames
\* apart.
C16_ChangesDebounceApart ==
  [][(saved_tone' # saved_tone /\ since_change >= 0)
       => since_change + 1 >= debounce]_vars

C16_Witness ==
  /\ frames_seen /\ debounce >= 2
  /\ since_change = 0 /\ saved_tone = None

\* C17: complete does not become true in a frame whose raw symbol equals a
\* saved_tone that is a symbol.
C17_NoCompleteWhileHeld ==
  [][(~complete /\ complete')
       => ~(seen_tone' = saved_tone' /\ saved_tone' # None)]_vars

C17_Witness ==
  /\ ValidConfig /\ complete
  /\ saved_tone # None /\ seen_tone # saved_tone

\* C18: when pressed is a symbol S, saved_tone is S or none, S is the last
\* symbol saved_tone held, and so is the value detect_tone returns.
C18_PressedIsLastConfirmed ==
  /\ pressed # None => (saved_tone \in {pressed, None} /\ pressed = last_confirmed)
  /\ pc = "done" => result = last_confirmed

C18_Witness ==
  /\ ValidConfig
  /\ pressed # None /\ saved_tone = None
  /\ seen_tone \in Keys \ {pressed}

\* C19: once pressed holds a symbol S, a frame whose raw symbol is none does
\* not change pressed; and if all later frames are silent, complete becomes
\* true with pressed = S and detect_tone returns S.
C19_SilenceCompletes ==
  /\ [][(pressed # None /\ last_time' # last_time /\ seen_tone' = None)
          => pressed' = pressed]_vars
  /\ \A S \in Keys :
       (pressed = S) ~> (complete /\ pressed = S /\ pc = "done" /\ result = S)

C19_Witness ==
  /\ pc = "done" /\ result \in Keys
  /\ saved_tone = None /\ seen_count = debounce
  /\ last_time > MaxPressClock

====
